---- MODULE Spec2Model ----
(***************************************************************************)
(* Model of src/os.py: the page-replacement simulator                      *)
(* (simulate_page_replacement, LRU and Optimal) and the first-fit memory   *)
(* fragmentation simulator (simulate_memory_fragmentation).                *)
(*                                                                         *)
(* Python lists frames / page_refs / recency are TLA+ sequences, so a      *)
(* Python index n is position n+1 here.  The memory list is a function on  *)
(* 0..total_memory-1, so allocation bounds are the code's own indices.     *)
(***************************************************************************)
EXTENDS Integers, Sequences, FiniteSets

\* ---------------------------------------------------------------- bounds
MaxLen == 5
MaxFrames == 3
MaxPage == 3
MaxMem == 5
MaxBlock == 3
MaxAllocs == 3
MaxDeallocs == 2

\* the value the code stores in a frame that holds no page (os.py:61)
EMPTY == -1
\* Python None in the memory list and in the local `start` (os.py:137,143)
None == -1

Pages == {EMPTY} \cup (1..MaxPage)
Algorithms == {"LRU", "Optimal"}

VARIABLES
    sim_type,       \* which simulation the run executes (os.py:54)
    pc,             \* position of the running function
    page_refs, num_frames, algorithm,
    frames, page_faults, frame_history, fault_markers, recency, i,
    total_memory, block_size, num_allocs, num_deallocs,
    memory, allocations, allocation_id, passes, start, deallocated, pending

pageVars == <<page_refs, num_frames, algorithm, frames, page_faults,
              frame_history, fault_markers, recency, i>>
fragVars == <<total_memory, block_size, num_allocs, num_deallocs, memory,
              allocations, allocation_id, passes, start, deallocated, pending>>
vars == <<sim_type, pc, pageVars, fragVars>>

\* ------------------------------------------------- Python list primitives
\* x in s
Contains(s, x) == \E k \in 1..Len(s) : s[k] = x

\* s.index(x): position of the first occurrence (caller ensures x in s)
Index(s, x) == CHOOSE k \in 1..Len(s) : s[k] = x /\ \A j \in 1..(k-1) : s[j] # x

\* deque.remove(x): drop the first occurrence (caller ensures x in s)
Remove(s, x) ==
    LET k == Index(s, x)
    IN  SubSeq(s, 1, k-1) \o SubSeq(s, k+1, Len(s))

\* [EMPTY] * n
Blank(n) == [k \in 1..n |-> EMPTY]

\* ------------------------------------------------------ Optimal policy
\* page_refs[i+1:].index(p), float('inf') when p does not occur again.
\* k is the position of the reference being processed; infinity is
\* represented by Len(refs), larger than every real distance.
FutureUse(refs, k, p) ==
    IF \E q \in (k+1)..Len(refs) : refs[q] = p
    THEN (CHOOSE q \in (k+1)..Len(refs) :
              refs[q] = p /\ \A r \in (k+1)..(q-1) : refs[r] # p) - (k+1)
    ELSE Len(refs)

\* frames.index(max(future_uses, key=future_uses.get)): the dict is filled
\* in frame order, max returns the first key of maximal value.
OptimalVictim(fr, refs, k) ==
    LET d(j) == FutureUse(refs, k, fr[j])
        first == CHOOSE j \in 1..Len(fr) :
                    /\ \A m \in 1..Len(fr) : d(m) <= d(j)
                    /\ \A m \in 1..(j-1) : d(m) < d(j)
    IN  Index(fr, fr[first])

\* ------------------------------------------- one iteration of the loop
\* The function's locals as a record; raised is TRUE when the iteration
\* ended in an exception (ValueError / IndexError) instead of completing.
InitLocals(n) ==
    [frames |-> Blank(n), page_faults |-> 0, frame_history |-> <<>>,
     fault_markers |-> <<>>, recency |-> <<>>, raised |-> FALSE]

\* hit branch, os.py:69-72
HitBranch(st, page, alg) ==
    IF alg = "LRU"
    THEN IF Contains(st.recency, page)
         THEN [st EXCEPT !.recency = Append(Remove(st.recency, page), page)]
         ELSE [st EXCEPT !.raised = TRUE]
    ELSE st

\* after frames[idx] = page, os.py:92-96
Place(st, idx, page, alg) ==
    LET st1 == [st EXCEPT !.frames[idx] = page]
    IN  IF alg = "LRU"
        THEN [st1 EXCEPT !.recency =
                 Append(IF Contains(st1.recency, page)
                        THEN Remove(st1.recency, page)
                        ELSE st1.recency, page)]
        ELSE st1

\* fault branch, os.py:73-96
FaultBranchNoCount(st, refs, k, alg) ==
    LET page == refs[k]
        st1  == st
    IN  IF Contains(st1.frames, EMPTY)
        THEN Place(st1, Index(st1.frames, EMPTY), page, alg)
        ELSE IF alg = "LRU"
             THEN IF st1.recency = <<>>
                  THEN [st1 EXCEPT !.raised = TRUE]
                  ELSE LET lru_page == Head(st1.recency)
                           st2 == [st1 EXCEPT !.recency = Tail(st1.recency)]
                       IN  IF Contains(st2.frames, lru_page)
                           THEN Place(st2, Index(st2.frames, lru_page), page, alg)
                           ELSE [st2 EXCEPT !.raised = TRUE]
             ELSE Place(st1, OptimalVictim(st1.frames, refs, k), page, alg)

FaultBranch(st, refs, k, alg) ==
    LET page == refs[k]
        st1  == [st EXCEPT !.page_faults = st.page_faults + 1]
    IN  IF Contains(st1.frames, EMPTY)
        THEN Place(st1, Index(st1.frames, EMPTY), page, alg)
        ELSE IF alg = "LRU"
             THEN IF st1.recency = <<>>
                  THEN [st1 EXCEPT !.raised = TRUE]
                  ELSE LET lru_page == Head(st1.recency)
                           st2 == [st1 EXCEPT !.recency = Tail(st1.recency)]
                       IN  IF Contains(st2.frames, lru_page)
                           THEN Place(st2, Index(st2.frames, lru_page), page, alg)
                           ELSE [st2 EXCEPT !.raised = TRUE]
             ELSE Place(st1, OptimalVictim(st1.frames, refs, k), page, alg)

LoopBodyFillFirst(st, refs, k, alg) ==
    LET page  == refs[k]
        fault == Contains(st.frames, EMPTY) \/ ~Contains(st.frames, page)
        st1   == IF fault THEN FaultBranch(st, refs, k, alg)
                          ELSE HitBranch(st, page, alg)
    IN  IF st1.raised
        THEN st1
        ELSE [st1 EXCEPT !.frame_history = Append(st1.frame_history, st1.frames),
                         !.fault_markers = Append(st1.fault_markers, fault)]

\* body of `for i, page in enumerate(page_refs)`, os.py:67-98
\* k is the position of the reference (k = i + 1)
LoopBody(st, refs, k, alg) ==
    LET page  == refs[k]
        fault == ~Contains(st.frames, page)
        st1   == IF fault THEN FaultBranch(st, refs, k, alg)
                          ELSE HitBranch(st, page, alg)
    IN  IF st1.raised
        THEN st1
        ELSE [st1 EXCEPT !.frame_history = Append(st1.frame_history, st1.frames),
                         !.fault_markers = Append(st1.fault_markers, fault)]

\* the whole function on the first k references, os.py:60-99
RECURSIVE RunTo(_, _, _, _)
RunTo(refs, n, alg, k) ==
    IF k = 0 THEN InitLocals(n)
    ELSE LET st == RunTo(refs, n, alg, k-1)
         IN  IF st.raised THEN st ELSE LoopBody(st, refs, k, alg)

simulate_page_replacement(refs, n, alg) == RunTo(refs, n, alg, Len(refs))

\* ------------------------------------------ page replacement: the run
Locals ==
    [frames |-> frames, page_faults |-> page_faults,
     frame_history |-> frame_history, fault_markers |-> fault_markers,
     recency |-> recency, raised |-> FALSE]

Iteration == LoopBody(Locals, page_refs, i + 1, algorithm)

InLoop == sim_type = "Page" /\ pc = "loop" /\ i < Len(page_refs)

Commit(r) ==
    /\ frames' = r.frames
    /\ page_faults' = r.page_faults
    /\ frame_history' = r.frame_history
    /\ fault_markers' = r.fault_markers
    /\ recency' = r.recency
    /\ UNCHANGED <<sim_type, page_refs, num_frames, algorithm, fragVars>>

\* os.py:69-72 then 97-98: the page is found in frames
Hit ==
    /\ InLoop
    /\ Contains(frames, page_refs[i + 1])
    /\ ~Iteration.raised
    /\ Commit(Iteration)
    /\ i' = i + 1
    /\ pc' = pc

\* os.py:73-77, 92-98: fault, the first slot holding -1 is filled
FaultFill ==
    /\ InLoop
    /\ ~Contains(frames, page_refs[i + 1])
    /\ Contains(frames, EMPTY)
    /\ Commit(Iteration)
    /\ i' = i + 1
    /\ pc' = pc

\* os.py:73-75, 78-98: fault, a victim chosen by the policy is replaced
FaultEvict ==
    /\ InLoop
    /\ ~Contains(frames, page_refs[i + 1])
    /\ ~Contains(frames, EMPTY)
    /\ ~Iteration.raised
    /\ Commit(Iteration)
    /\ i' = i + 1
    /\ pc' = pc

\* os.py:71, 81, 82: recency.remove / popleft / frames.index raises and the
\* exception leaves the function; no result is returned
Raise ==
    /\ InLoop
    /\ Iteration.raised
    /\ Commit(Iteration)
    /\ i' = i
    /\ pc' = "raised"

\* os.py:99
Return ==
    /\ sim_type = "Page" /\ pc = "loop" /\ i = Len(page_refs)
    /\ pc' = "done"
    /\ UNCHANGED <<sim_type, pageVars, fragVars>>

\* ------------------------------------------------ memory fragmentation
\* os.py:143-147: lowest i in range(total_memory - block_size + 1) whose
\* block_size units are all None, else None
FirstFitShort(mem, tm, bs) ==
    LET fits(s) == \A j \in s..(s + bs - 1) : mem[j] = None
        cand == {s \in 0..(tm - bs - 1) : fits(s)}
    IN  IF cand = {} THEN None
        ELSE CHOOSE s \in cand : \A t \in cand : s <= t

FirstFit(mem, tm, bs) ==
    LET fits(s) == \A j \in s..(s + bs - 1) : mem[j] = None
        cand == {s \in 0..(tm - bs) : fits(s)}
    IN  IF cand = {} THEN None
        ELSE CHOOSE s \in cand : \A t \in cand : s <= t

\* os.py:150-153: mark the block and record its bounds
MarkShort(st, s, bs) ==
    [st EXCEPT !.memory = [j \in DOMAIN st.memory |->
                              IF j >= s /\ j < s + bs - 1
                              THEN st.allocation_id ELSE st.memory[j]],
               !.allocations = Append(st.allocations, <<s, s + bs - 1>>),
               !.allocation_id = st.allocation_id + 1,
               !.start = s]

Mark(st, s, bs) ==
    [st EXCEPT !.memory = [j \in DOMAIN st.memory |->
                              IF j >= s /\ j < s + bs
                              THEN st.allocation_id ELSE st.memory[j]],
               !.allocations = Append(st.allocations, <<s, s + bs - 1>>),
               !.allocation_id = st.allocation_id + 1,
               !.start = s]

\* one pass of `for _ in range(num_allocs)`, os.py:143-153; start = None
\* in the result means the pass took the break of os.py:149
AllocPassBody(st, tm, bs) ==
    LET s == FirstFit(st.memory, tm, bs)
    IN  IF s = None THEN [st EXCEPT !.start = None] ELSE Mark(st, s, bs)

FragInit(tm) ==
    [memory |-> [j \in 0..(tm - 1) |-> None], allocations |-> <<>>,
     allocation_id |-> 1, start |-> None]

\* the allocation phase, os.py:137-153, as a function of its inputs
RECURSIVE AllocPhase(_, _, _)
AllocPhase(tm, bs, na) ==
    IF na = 0 THEN FragInit(tm)
    ELSE LET st == AllocPhase(tm, bs, na - 1)
         IN  IF Len(st.allocations) < na - 1 THEN st
             ELSE AllocPassBody(st, tm, bs)

FragLocals ==
    [memory |-> memory, allocations |-> allocations,
     allocation_id |-> allocation_id, start |-> start]

Pass == AllocPassBody(FragLocals, total_memory, block_size)

CommitFrag(r) ==
    /\ memory' = r.memory
    /\ allocations' = r.allocations
    /\ allocation_id' = r.allocation_id
    /\ start' = r.start
    /\ UNCHANGED <<sim_type, pageVars, total_memory, block_size, num_allocs,
                   num_deallocs, deallocated, pending>>

\* os.py:142-153 with a block found
AllocPass ==
    /\ sim_type = "Frag" /\ pc = "alloc" /\ passes < num_allocs
    /\ Pass.start # None
    /\ CommitFrag(Pass)
    /\ passes' = passes + 1
    /\ pc' = pc

\* os.py:148-149: no contiguous free space, leave the loop
AllocBreak ==
    /\ sim_type = "Frag" /\ pc = "alloc" /\ passes < num_allocs
    /\ Pass.start = None
    /\ CommitFrag(Pass)
    /\ passes' = passes + 1
    /\ pc' = "sample"

\* os.py:142: range(num_allocs) is exhausted
AllocEnd ==
    /\ sim_type = "Frag" /\ pc = "alloc" /\ passes = num_allocs
    /\ pc' = "sample"
    /\ UNCHANGED <<sim_type, pageVars, fragVars>>

Min(a, b) == IF a < b THEN a ELSE b

\* os.py:156: random.sample(list(allocations.keys()), min(...)) as a set
SampleSets(ids, k) == {S \in SUBSET ids : Cardinality(S) = k}

Sample ==
    /\ sim_type = "Frag" /\ pc = "sample"
    /\ \E S \in SampleSets(DOMAIN allocations, Min(num_deallocs, Len(allocations))) :
          /\ deallocated' = S
          /\ pending' = S
    /\ pc' = "free"
    /\ UNCHANGED <<sim_type, pageVars, total_memory, block_size, num_allocs,
                   num_deallocs, memory, allocations, allocation_id, passes, start>>

\* os.py:158-160: free the units start..end of one allocation
ReleaseLong(mem, bounds) ==
    [j \in DOMAIN mem |-> IF j >= bounds[1] /\ j <= bounds[2] + 1 THEN None ELSE mem[j]]

Release(mem, bounds) ==
    [j \in DOMAIN mem |-> IF j >= bounds[1] /\ j <= bounds[2] THEN None ELSE mem[j]]

\* one iteration of `for alloc in deallocated`, os.py:157-160; the
\* unpacking `start, end = allocations[alloc]` rebinds the local start
FreeOne ==
    /\ sim_type = "Frag" /\ pc = "free"
    /\ \E alloc \in pending :
          /\ start' = allocations[alloc][1]
          /\ memory' = Release(memory, allocations[alloc])
          /\ pending' = pending \ {alloc}
    /\ pc' = pc
    /\ UNCHANGED <<sim_type, pageVars, total_memory, block_size, num_allocs,
                   num_deallocs, allocations, allocation_id, passes, deallocated>>

\* os.py:162
FragReturn ==
    /\ sim_type = "Frag" /\ pc = "free" /\ pending = {}
    /\ pc' = "done"
    /\ UNCHANGED <<sim_type, pageVars, fragVars>>

\* ------------------------------------------------------- specification
RECURSIVE SeqsUpTo(_, _)
SeqsUpTo(S, n) ==
    IF n = 0 THEN {<<>>}
    ELSE LET shorter == SeqsUpTo(S, n - 1)
         IN  shorter \cup {Append(s, x) : s \in {t \in shorter : Len(t) = n - 1}, x \in S}

PageIdle ==
    /\ page_refs = <<>> /\ num_frames = 1 /\ algorithm = "LRU"
    /\ frames = <<>> /\ page_faults = 0 /\ frame_history = <<>>
    /\ fault_markers = <<>> /\ recency = <<>> /\ i = 0

FragIdle ==
    /\ total_memory = 1 /\ block_size = 1 /\ num_allocs = 0 /\ num_deallocs = 0
    /\ memory = <<>> /\ allocations = <<>> /\ allocation_id = 1 /\ passes = 0
    /\ start = None /\ deallocated = {} /\ pending = {}

\* state on entry to simulate_page_replacement, os.py:61-65
PageInit ==
    /\ sim_type = "Page" /\ pc = "loop"
    /\ page_refs \in SeqsUpTo(Pages, MaxLen)
    /\ num_frames \in 1..MaxFrames
    /\ algorithm \in Algorithms
    /\ frames = InitLocals(num_frames).frames
    /\ page_faults = 0 /\ frame_history = <<>> /\ fault_markers = <<>>
    /\ recency = <<>> /\ i = 0
    /\ FragIdle

\* state on entry to simulate_memory_fragmentation, os.py:137-139
FragStart ==
    /\ sim_type = "Frag" /\ pc = "alloc"
    /\ total_memory \in 1..MaxMem
    /\ block_size \in 1..MaxBlock
    /\ num_allocs \in 0..MaxAllocs
    /\ num_deallocs \in 0..MaxDeallocs
    /\ memory = FragInit(total_memory).memory
    /\ allocations = <<>> /\ allocation_id = 1 /\ passes = 0
    /\ start = None /\ deallocated = {} /\ pending = {}
    /\ PageIdle

Init == PageInit \/ FragStart

Next ==
    \/ Hit
    \/ FaultFill
    \/ FaultEvict
    \/ Raise
    \/ Return
    \/ AllocPass
    \/ AllocBreak
    \/ AllocEnd
    \/ Sample
    \/ FreeOne
    \/ FragReturn

Spec == Init /\ [][Next]_vars


\* ------------------------------------------------- notions of the claims
PageRun == sim_type = "Page"
FragRun == sim_type = "Frag"
Returned == pc = "done"

\* number of steps whose fault marker is true
FaultSteps == Cardinality({k \in 1..Len(fault_markers) : fault_markers[k]})

\* the distinct page values of the reference sequence
DistinctPages == {page_refs[k] : k \in 1..Len(page_refs)}

\* reference k is the first occurrence of its page value
FirstOccurrence(k) == \A j \in 1..(k - 1) : page_refs[j] # page_refs[k]

\* the frames before reference k is processed
FramesBefore(k) == IF k = 1 THEN Blank(num_frames) ELSE frame_history[k - 1]

\* slot s has had a page placed in it before reference k is processed
FilledBefore(s, k) == \E h \in 1..(k - 1) : frame_history[h][s] # FramesBefore(h)[s]

\* slot s has had a page placed in it by now
Filled(s) == FilledBefore(s, Len(frame_history) + 1)

\* the units of memory holding allocation id a
UnitsOf(a) == {j \in DOMAIN memory : memory[j] = a}

\* the recorded index range of allocation id a
RangeOf(a) == allocations[a][1]..allocations[a][2]

\* some run of block_size consecutive units of mem is free
HasFreeRun(mem) ==
    \E s \in 0..(total_memory - block_size) :
        \A j \in s..(s + block_size - 1) : mem[j] = None

\* an allocation pass ended without making an allocation: more passes
\* were begun than allocations recorded
PassFailed == passes > Len(allocations)

\* the allocation loop was left by the break of os.py:149; start keeps the
\* last pass's outcome until the deallocation phase rebinds it
LeftByBreak == passes >= 1 /\ start = None

AfterAllocation == FragRun /\ pc \in {"sample", "free", "done"}

\* ------------------------------------------------------------- claims

\* C1: the first occurrence of each page value in the reference sequence
\* is recorded as a fault, for every sequence (the value -1 included),
\* every num_frames >= 1 and both policies.
C1_FirstOccurrenceIsFault ==
    PageRun =>
        \A k \in 1..Len(fault_markers) : FirstOccurrence(k) => fault_markers[k]

\* C2: simulate_page_replacement has no error outcome: no step raises.
C2_NeverRaises == PageRun => pc # "raised"

\* C3: the fault count equals the number of steps whose fault marker is
\* true, and the trace has exactly one entry per processed reference, in
\* input order (entry k is the frames after reference k, which then hold
\* page_refs[k]); a returned trace covers every reference.
C3_FaultCountMatchesTrace ==
    (PageRun /\ pc \in {"loop", "done"}) =>
        /\ page_faults = FaultSteps
        /\ Len(frame_history) = i
        /\ Len(fault_markers) = i
        /\ \A k \in 1..i :
              /\ Len(frame_history[k]) = num_frames
              /\ Contains(frame_history[k], page_refs[k])
              /\ fault_markers[k] = ~Contains(FramesBefore(k), page_refs[k])
        /\ Returned => i = Len(page_refs)

C3_Witness ==
    /\ PageRun /\ Returned
    /\ Len(page_refs) = MaxLen
    /\ page_faults > num_frames
    /\ page_faults < Len(page_refs)

\* C4: if num_frames is at least the number of distinct page values, the
\* returned fault count equals the number of distinct page values.
C4_EnoughFramesFaultsOncePerPage ==
    (PageRun /\ Returned /\ num_frames >= Cardinality(DistinctPages)) =>
        page_faults = Cardinality(DistinctPages)

\* C5: under Optimal the fault count with more frames is never larger
\* than the fault count with fewer frames, on the same references.
C5_OptimalMonotone ==
    (PageRun /\ Returned /\ algorithm = "Optimal") =>
        \A m \in (num_frames + 1)..(MaxFrames + 1) :
            simulate_page_replacement(page_refs, m, "Optimal").page_faults
                <= page_faults

C5_Witness ==
    /\ PageRun /\ Returned /\ algorithm = "Optimal"
    /\ num_frames >= 2
    /\ page_faults > num_frames
    /\ simulate_page_replacement(page_refs, num_frames + 1, "Optimal").page_faults
           < page_faults

\* C6: every allocation id that is live (created and not freed) occupies
\* exactly its recorded range [start, end], a run of block_size units
\* inside the memory.
C6_LiveAllocationIsItsRange ==
    FragRun =>
        \A a \in (DOMAIN allocations) \ (deallocated \ pending) :
            /\ UnitsOf(a) = RangeOf(a)
            /\ allocations[a][2] - allocations[a][1] + 1 = block_size
            /\ allocations[a][1] >= 0
            /\ allocations[a][2] < total_memory

C6_Witness ==
    /\ FragRun /\ Returned
    /\ Len(allocations) >= 2
    /\ deallocated # {}
    /\ \E a \in DOMAIN allocations : a \notin deallocated /\ UnitsOf(a) # {}

\* C7: at most num_allocs allocations are made, and exactly num_allocs
\* iff no allocation pass ended without a free run of block_size units;
\* a pass ends that way only when the memory really has no such run, so
\* block_size > total_memory yields zero allocations.
C7_AllocationCount ==
    AfterAllocation =>
        /\ Len(allocations) <= num_allocs
        /\ (Len(allocations) = num_allocs) <=> ~PassFailed
        /\ PassFailed => ~HasFreeRun(AllocPhase(total_memory, block_size, num_allocs).memory)
        /\ pc = "sample" => (PassFailed <=> LeftByBreak)
        /\ (pc = "sample" /\ PassFailed) => ~HasFreeRun(memory)
        /\ block_size > total_memory => Len(allocations) = 0

C7_Witness ==
    /\ AfterAllocation
    /\ PassFailed
    /\ Len(allocations) >= 1
    /\ Len(allocations) < num_allocs

\* C8: the deallocation phase frees exactly min(num_deallocs, allocations
\* made) distinct ids; in the result every unit of a freed range is free,
\* every other unit holds what it held at the end of the allocation
\* phase, and allocations still records every id's bounds unchanged.
C8_DeallocationFrame ==
    (FragRun /\ Returned) =>
        LET after == AllocPhase(total_memory, block_size, num_allocs)
            freed == UNION {RangeOf(a) : a \in deallocated}
        IN  /\ deallocated \subseteq DOMAIN allocations
            /\ Cardinality(deallocated) = Min(num_deallocs, Len(allocations))
            /\ \A j \in freed : memory[j] = None
            /\ \A j \in (DOMAIN memory) \ freed : memory[j] = after.memory[j]
            /\ allocations = after.allocations

C8_Witness ==
    /\ FragRun /\ Returned
    /\ deallocated # {}
    /\ Cardinality(deallocated) < Len(allocations)
    /\ \E a \in DOMAIN allocations : a \notin deallocated /\ a + 1 \in deallocated

\* C9: under LRU, after every processed reference the pages in recency
\* are exactly the pages held by the frames that have been filled, and no
\* page appears twice in recency or twice among the filled frames.
C9_RecencyMatchesFrames ==
    (PageRun /\ algorithm = "LRU" /\ pc \in {"loop", "done"}) =>
        LET filled == {s \in 1..num_frames : Filled(s)}
        IN  /\ {recency[k] : k \in 1..Len(recency)} = {frames[s] : s \in filled}
            /\ \A j, k \in 1..Len(recency) : recency[j] = recency[k] => j = k
            /\ \A s, t \in filled : frames[s] = frames[t] => s = t

\* the lowest slot among those whose page is next used farthest ahead
FarthestSlot(fr, k) ==
    CHOOSE s \in 1..Len(fr) :
        /\ \A t \in 1..Len(fr) :
              FutureUse(page_refs, k, fr[t]) <= FutureUse(page_refs, k, fr[s])
        /\ \A t \in 1..(s - 1) :
              FutureUse(page_refs, k, fr[t]) < FutureUse(page_refs, k, fr[s])

\* C10: under Optimal, a fault with no empty slot overwrites the slot of
\* the resident page whose next use is farthest (never used again counts
\* as farthest; lowest slot on a tie) and leaves every other slot alone.
C10_OptimalVictim ==
    (PageRun /\ algorithm = "Optimal") =>
        \A k \in 1..Len(frame_history) :
            (fault_markers[k] /\ \A s \in 1..num_frames : FilledBefore(s, k)) =>
                frame_history[k] =
                    [FramesBefore(k) EXCEPT ![FarthestSlot(FramesBefore(k), k)] = page_refs[k]]

====
